---- MODULE Spec2Model ----
(***************************************************************************)
(* Care-connect assistant: the patient invitation / activation handler     *)
(* (supabase/functions/patient-invitation/index.ts) and the notification   *)
(* scan (supabase/functions/create-notifications/index.ts), modelled as    *)
(* request handlers that run one awaited store operation per step over a   *)
(* shared relational store.                                                *)
(***************************************************************************)
EXTENDS Integers, Sequences, FiniteSets, Bags, TLC

VARIABLES
    now,            \* wall clock, milliseconds
    patients,       \* table public.patients: sequence of rows, id = index
    invitations,    \* table public.patient_invitations: set of rows
    authUsers,      \* auth.users: sequence of rows, id = index
    userRoles,      \* table public.user_roles: set of [user_id, role]
    webhooks,       \* tokens whose activation link was posted to the SMS webhook
    webhookUrl,     \* whether N8N_PATIENT_INVITATION_WEBHOOK_URL is set
    faults,         \* the store operations that have failed so far
    pc,             \* per handler: position in the code
    req,            \* per handler: the request being served
    loc,            \* per handler: local variables of the running call
    resp,           \* per handler: the response of the call
    pre,            \* per handler: what the request names, as the call began
    written,        \* per handler: the tables the call has changed so far
    failed,         \* per handler: the steps of the call whose store operation failed
    tasks,          \* table public.follow_up_tasks: set of rows
    appointments,   \* table public.appointments: set of rows
    messages,       \* table public.messages: set of rows
    notifications,  \* table public.notifications: bag of [user_id, type, related_id]
    spc,            \* per scan invocation: position in the code
    sloc,           \* per scan invocation: staffUsers, the notifications array,
                    \* whether it began right after a scan and ran undisturbed, and
                    \* the steps whose store operation failed
    sresp,          \* per scan invocation: the response
    provider        \* the AuthProvider component: its state and what it awaits

invVars  == <<patients, invitations, authUsers, webhooks, pc, req, loc, resp, pre, written,
              failed>>
scanVars == <<tasks, appointments, messages, notifications, spc, sloc, sresp>>
vars     == <<now, userRoles, webhookUrl, faults, invVars, scanVars, provider>>

---------------------------------------------------------------------------
(* Bounds of the model *)

MaxTicks == 3           \* the clock of the invitation runs stops after this many steps
MaxPatients == 2        \* create is not started once this many patient rows exist
MaxFaults == 1          \* store operations that may fail in one run
MaxStaff == 3           \* staff sign-up stops once this many identities hold the staff role
MaxEvents == 2          \* tasks, appointments and messages inserted in one run
MaxNotifications == 4   \* a scan is not started once the table holds this many rows
MaxScanTicks == 2       \* the clock of the scan runs stops after this many hours
MaxAuthEvents == 3      \* auth-state events and signOut calls in one run
MaxTimerTicks == 5      \* the clock of the timed scans stops after this many half periods

(* Program constants *)

DAY_MS == 86400000
EXPIRY_DAYS == 7
MIN_PASSWORD_LENGTH == 8
NULL == -1              \* SQL NULL in a timestamp / uuid column
NoToken == 0            \* an absent or empty token parameter
NoId == 0               \* no row / no user

LAST_HOUR_MS == 3600000
LAST_10_MINUTES_MS == 600000
CRON_PERIOD_MS == 600000     \* cron.schedule '*/10 * * * *'

Handlers == {"h1", "h2"}
Scanners == {"s1", "s2"}

---------------------------------------------------------------------------
(* Request inputs *)

PhoneA == <<"+","6","1","4","1","2","3","4","5","6","7","8">>
PhoneB == <<"+","6","1","2","9","8","7","6","5","4","3","2">>
PhoneBadSecondDigit == <<"+","6","1","1","1","2","3","4","5","6","7","8">>
PhoneWrongCountry == <<"+","1","2","3","4","5","6","7","8","9","0">>
PhoneTooShort == <<"+","6","1","4","1","2","3","4","5">>
NoPhone == <<>>

PhoneInputs ==
    {PhoneA, PhoneB, PhoneBadSecondDigit, PhoneWrongCountry, PhoneTooShort, NoPhone}

Digits == {"0","1","2","3","4","5","6","7","8","9"}

\* characters tried in phone strings: the second digits, two other digits, and
\* characters that are not digits
PhoneChars == {"0", "1", "2", "3", "4", "5", "6", "7", "8", "9", "+", " ", "a"}

Substituted(s, i, c) == [s EXCEPT ![i] = c]
Deleted(s, i) == SubSeq(s, 1, i - 1) \o SubSeq(s, i + 1, Len(s))
Inserted(s, i, c) == SubSeq(s, 1, i - 1) \o <<c>> \o SubSeq(s, i, Len(s))

\* PhoneA with its prefix or its second digit replaced, with one character
\* dropped, or with one character put in at the start, in the middle or at
\* the end; and the phones named above
PhoneVariants ==
    PhoneInputs
    \cup {Substituted(PhoneA, i, c) : i \in {1, 2, 3, 4, 5, 12}, c \in PhoneChars}
    \cup {Deleted(PhoneA, i) : i \in 1..Len(PhoneA)}
    \cup {Inserted(PhoneA, i, c) : i \in {1, 4, 5, Len(PhoneA) + 1}, c \in PhoneChars}

Pw(n) == [i \in 1..n |-> "x"]
PasswordInputs == {Pw(0), Pw(MIN_PASSWORD_LENGTH - 1), Pw(MIN_PASSWORD_LENGTH)}

Tokens == 1..(MaxPatients + 1)
TokenInputs == {NoToken} \cup Tokens

Body(first, last, phone) == [first_name |-> first, last_name |-> last, phone |-> phone]

\* the create requests tried: <<Authorization header present, body>>
CreateRequests ==
    {<<TRUE, Body("Jane", "Doe", ph)>> : ph \in PhoneInputs}
    \cup {<<TRUE, Body("", "Doe", PhoneA)>>, <<TRUE, Body("Jane", "", PhoneA)>>,
          <<FALSE, Body("Jane", "Doe", PhoneA)>>, <<FALSE, Body("", "", NoPhone)>>}

\* the activate requests tried: every token with a long enough password, the
\* first token issued with each password
ActivateBodies ==
    {[token |-> k, password |-> Pw(MIN_PASSWORD_LENGTH)] : k \in TokenInputs}
    \cup {[token |-> k, password |-> pw] : k \in {k \in Tokens : k = 1}, pw \in PasswordInputs}

\* thrown: the message of the exception the body of the request makes the
\* handler throw, "" for a body that can be read
NoReq == [op |-> "none", auth |-> FALSE, first_name |-> "", last_name |-> "",
          phone |-> NoPhone, token |-> NoToken, password |-> Pw(0), thrown |-> ""]

\* the messages of the exceptions thrown for a body that is not JSON and for
\* the body null
ThrownMessages == {"Unexpected end of JSON input", "Cannot read properties of null"}

NoLoc == [t |-> 0, patient |-> NoId, phone |-> NoPhone, user |-> NoId,
          token |-> NoToken, expiresAt |-> 0, usedAt |-> 0]

NoResp == [status |-> 0, error |-> "", valid |-> "absent", success |-> FALSE,
           patient |-> NoId, token |-> NoToken]

NoPre == [invitation |-> {}, patients |-> {}, after |-> "none", afterPatient |-> NoId,
          afterBegan |-> 0, validated |-> FALSE]

---------------------------------------------------------------------------
(* Pure helpers of the invitation handler *)

\* the characters of a class range a-b, by character code
DigitOrder == <<"0","1","2","3","4","5","6","7","8","9">>
CodeOf(c) == CHOOSE i \in 1..Len(DigitOrder) : DigitOrder[i] = c
CharRange(a, b) == {DigitOrder[i] : i \in CodeOf(a)..CodeOf(b)}

\* one item of a pattern: a character class and the number of times it repeats
Item(chars, count) == [chars |-> chars, count |-> count]

\* /^\+61[2-478]\d{8}$/ : \+, 6, 1, the class [2-478] (the range 2-4, then 7
\* and 8), and \d eight times; \d is the class 0-9
PhoneRegex_WideSecondDigit ==
    <<Item({"+"}, 1), Item({"6"}, 1), Item({"1"}, 1),
      Item(CharRange("2", "8"), 1),
      Item(CharRange("0", "9"), 8)>>
PhoneRegex ==
    <<Item({"+"}, 1), Item({"6"}, 1), Item({"1"}, 1),
      Item(CharRange("2", "4") \cup {"7", "8"}, 1),
      Item(CharRange("0", "9"), 8)>>

\* a pattern anchored at both ends matches s: the items consume s from its
\* first character, each class its count of times, and nothing is left over
RECURSIVE Matches(_, _)
Matches(re, s) ==
    IF re = <<>> THEN s = <<>>
    ELSE IF Head(re).count = 0 THEN Matches(Tail(re), s)
    ELSE /\ s # <<>>
         /\ Head(s) \in Head(re).chars
         /\ Matches(<<Item(Head(re).chars, Head(re).count - 1)>> \o Tail(re), Tail(s))

\* phoneRegex.test(body.phone)
PhoneRegexTest_AnyNonEmpty(s) == Len(s) > 0
PhoneRegexTest(s) == Matches(PhoneRegex, s)

\* .eq('token', token).is('used_at', null).gt('expires_at', t): the rows selected
InvitationQuery_NonStrict(token, t) ==
    {i \in invitations : i.token = token /\ i.used_at = NULL /\ i.expires_at >= t}
InvitationQuery_IgnoreUsed(token, t) ==
    {i \in invitations : i.token = token /\ i.expires_at > t}
InvitationQuery(token, t) ==
    {i \in invitations : i.token = token /\ i.used_at = NULL /\ i.expires_at > t}

\* .maybeSingle(): the row when exactly one is selected, else null
\* (no row: null without error; several rows: null with an error)
HasSingle(rows) == Cardinality(rows) = 1
TheRow(rows) == CHOOSE r \in rows : TRUE

\* expiresAt.setDate(expiresAt.getDate() + 7)
ExpiresAt_NoOffset(t) == t
ExpiresAt(t) == t + EXPIRY_DAYS * DAY_MS

\* crypto.randomUUID(): a token no invitation row holds
FreshToken == CHOOSE k \in Tokens : \A i \in invitations : i.token # k

\* a call may begin on a handler that is not in the middle of one
Free(p) == pc[p] \in {"idle", "done"}

\* the patient of the call on p: create returns it, validate returns it as the
\* invitation's patient, activate reads it from the invitation
Patient(p) ==
    IF req[p].op = "activate" THEN loc[p].patient ELSE resp[p].patient

\* the call that has just returned on handler p, when it returned success or
\* valid:true: its action, the token it was given (create: the token it issued)
\* and its patient
Served(p) ==
    IF pc[p] = "done" /\ (resp[p].success \/ resp[p].valid = "true")
    THEN [op |-> req[p].op,
          token |-> IF req[p].op = "create" THEN resp[p].token ELSE req[p].token,
          patient |-> Patient(p),
          began |-> loc[p].t]
    ELSE [op |-> "none", token |-> NoToken, patient |-> NoId, began |-> 0]

\* what request r, beginning on handler p, names: the invitation rows holding
\* its token, the ids of the patient rows holding its phone, and, when the call
\* that has just returned success on p was given or issued the same token, that
\* call's action and patient and the time at which it began; validated says
\* that call was a validate answering valid:true that itself came right after
\* the create that issued the token
Named(p, r) ==
    LET last == Served(p)
        same == r.token # NoToken /\ last.token = r.token
    IN  [invitation |-> {i \in invitations : i.token = r.token},
         patients |-> {i \in 1..Len(patients) :
                          r.phone # NoPhone /\ patients[i].phone = r.phone},
         after |-> IF same THEN last.op ELSE "none",
         afterPatient |-> IF same THEN last.patient ELSE NoId,
         afterBegan |-> IF same THEN last.began ELSE 0,
         validated |-> same /\ last.op = "validate" /\ pre[p].after = "create"]

\* the tables a step changes
Changed ==
    {n \in {"patients", "invitations", "authUsers", "userRoles", "webhooks"} :
        \/ n = "patients" /\ patients' # patients
        \/ n = "invitations" /\ invitations' # invitations
        \/ n = "authUsers" /\ authUsers' # authUsers
        \/ n = "userRoles" /\ userRoles' # userRoles
        \/ n = "webhooks" /\ webhooks' # webhooks}

\* a step of the call on handler p, recorded in written
Track(p) ==
    /\ written' = [written EXCEPT ![p] = (IF Free(p) THEN {} ELSE @) \cup Changed]
    /\ failed' = [failed EXCEPT ![p] = IF Free(p) THEN {} ELSE @]
    /\ UNCHANGED faults

\* the same for a step in which the store operation fails
TrackFault(p) ==
    /\ faults < MaxFaults
    /\ faults' = faults + 1
    /\ written' = [written EXCEPT ![p] = @ \cup Changed]
    /\ failed' = [failed EXCEPT ![p] = @ \cup {pc[p]}]

\* the handler is entered: next is the first awaited operation, or "done" with
\* the response rsp when the call returns before any
Begin(p, r, next, rsp) ==
    /\ Free(p)
    /\ req' = [req EXCEPT ![p] = r]
    /\ loc' = [loc EXCEPT ![p] = [NoLoc EXCEPT !.t = now]]
    /\ pre' = [pre EXCEPT ![p] = Named(p, r)]
    /\ resp' = [resp EXCEPT ![p] = rsp]
    /\ pc' = [pc EXCEPT ![p] = next]

\* return new Response(...)
Reply(p, r) ==
    /\ resp' = [resp EXCEPT ![p] = r]
    /\ pc' = [pc EXCEPT ![p] = "done"]

Goto(p, next) ==
    /\ pc' = [pc EXCEPT ![p] = next]
    /\ UNCHANGED resp

Error(status, msg) == [NoResp EXCEPT !.status = status, !.error = msg]

---------------------------------------------------------------------------
(* action=create *)

\* lines 37-64: the checks made before the first store operation; "" when the
\* request passes them
CreateRejection(auth, body) ==
    IF ~auth THEN "Unauthorized"
    ELSE IF body.first_name = "" \/ body.last_name = "" \/ body.phone = NoPhone
         THEN "Missing required fields"
    ELSE IF ~PhoneRegexTest(body.phone) THEN "Invalid phone format"
    ELSE ""

CreateBegin(p, auth, body) ==
    /\ Len(patients) < MaxPatients
    /\ LET r == [NoReq EXCEPT !.op = "create", !.auth = auth,
                     !.first_name = body.first_name, !.last_name = body.last_name,
                     !.phone = body.phone]
           rej == CreateRejection(auth, body)
       IN  IF rej = ""
           THEN Begin(p, r, "c_precheck", NoResp)
           ELSE Begin(p, r, "done",
                      Error(IF rej = "Unauthorized" THEN 401 ELSE 400, rej))
    /\ UNCHANGED <<now, provider, webhookUrl, userRoles, patients, invitations, authUsers, webhooks, scanVars>>
    /\ Track(p)

\* lines 67-71: .from('patients').select('id').eq('phone', phone).maybeSingle()
ExistingPatient_Never(phone) == {}
ExistingPatient(phone) ==
    LET rows == {i \in 1..Len(patients) : patients[i].phone = phone}
    IN  IF Cardinality(rows) = 1 THEN rows ELSE {}

\* lines 37-45 and 312-318: the body cannot be read (req.json() rejects, or the
\* body is null and line 48 throws); the exception reaches the catch, which
\* answers 500 with error.message
CreateBeginThrows_BodyFirst(p, auth, msg) ==
    /\ LET r == [NoReq EXCEPT !.op = "create", !.auth = auth, !.thrown = msg]
       IN  Begin(p, r, "done", Error(500, msg))
    /\ UNCHANGED <<now, provider, webhookUrl, userRoles, patients, invitations, authUsers, webhooks, scanVars>>
    /\ Track(p)
CreateBeginThrows(p, auth, msg) ==
    /\ LET r == [NoReq EXCEPT !.op = "create", !.auth = auth, !.thrown = msg]
       IN  IF ~auth
           THEN Begin(p, r, "done", Error(401, "Unauthorized"))
           ELSE Begin(p, r, "done", Error(500, msg))
    /\ UNCHANGED <<now, provider, webhookUrl, userRoles, patients, invitations, authUsers, webhooks, scanVars>>
    /\ Track(p)

\* lines 67-80
CreatePrecheck_Reinvites(p) ==
    /\ pc[p] = "c_precheck"
    /\ IF ExistingPatient(req[p].phone) # {}
       THEN /\ loc' = [loc EXCEPT ![p].patient = CHOOSE i \in ExistingPatient(req[p].phone) : TRUE,
                                  ![p].phone = req[p].phone,
                                  ![p].expiresAt = ExpiresAt(now)]
            /\ Goto(p, "c_insert_invitation")
       ELSE /\ Goto(p, "c_insert_patient")
            /\ UNCHANGED loc
    /\ UNCHANGED <<now, provider, webhookUrl, userRoles, patients, invitations, authUsers, webhooks,
                   req, pre, scanVars>>
    /\ Track(p)
CreatePrecheck_Conflict400(p) ==
    /\ pc[p] = "c_precheck"
    /\ IF ExistingPatient(req[p].phone) # {}
       THEN Reply(p, Error(400, "Patient with this phone number already exists"))
       ELSE Goto(p, "c_insert_patient")
    /\ UNCHANGED <<now, provider, webhookUrl, userRoles, patients, invitations, authUsers, webhooks,
                   req, loc, pre, scanVars>>
    /\ Track(p)
CreatePrecheck(p) ==
    /\ pc[p] = "c_precheck"
    /\ IF ExistingPatient(req[p].phone) # {}
       THEN Reply(p, Error(409, "Patient with this phone number already exists"))
       ELSE Goto(p, "c_insert_patient")
    /\ UNCHANGED <<now, provider, webhookUrl, userRoles, patients, invitations, authUsers, webhooks,
                   req, loc, pre, scanVars>>
    /\ Track(p)

\* lines 67-73 when the query fails: the error is not read, data is null
CreatePrecheckFails(p) ==
    /\ pc[p] = "c_precheck"
    /\ Goto(p, "c_insert_patient")
    /\ UNCHANGED <<now, provider, webhookUrl, userRoles, patients, invitations, authUsers, webhooks,
                   req, loc, pre, scanVars>>
    /\ TrackFault(p)

\* lines 83-106: the patient row is inserted, then expiresAt is computed
CreateInsertPatient(p) ==
    /\ pc[p] = "c_insert_patient"
    /\ patients' = Append(patients,
            [first_name |-> req[p].first_name, last_name |-> req[p].last_name,
             phone |-> req[p].phone, user_id |-> NULL])
    /\ loc' = [loc EXCEPT ![p].patient = Len(patients) + 1,
                          ![p].phone = req[p].phone,
                          ![p].expiresAt = ExpiresAt(now)]
    /\ Goto(p, "c_insert_invitation")
    /\ UNCHANGED <<now, provider, webhookUrl, userRoles, invitations, authUsers, webhooks,
                   req, pre, scanVars>>
    /\ Track(p)

\* lines 95-101
CreateInsertPatientFails(p) ==
    /\ pc[p] = "c_insert_patient"
    /\ Reply(p, Error(500, "Failed to create patient"))
    /\ UNCHANGED <<now, provider, webhookUrl, userRoles, patients, invitations, authUsers, webhooks,
                   req, loc, pre, scanVars>>
    /\ TrackFault(p)

\* lines 109-165: the invitation row is inserted, the webhook is posted when
\* N8N_PATIENT_INVITATION_WEBHOOK_URL is set, and the call returns 200
CreateInsertInvitation(p) ==
    /\ pc[p] = "c_insert_invitation"
    /\ LET token == FreshToken
       IN  /\ invitations' = invitations \cup
                  {[patient_id |-> loc[p].patient, token |-> token,
                    expires_at |-> loc[p].expiresAt, used_at |-> NULL]}
           /\ webhooks' = IF webhookUrl THEN webhooks \cup {token} ELSE webhooks
           /\ loc' = [loc EXCEPT ![p].token = token]
           /\ Reply(p, [NoResp EXCEPT !.status = 200, !.success = TRUE,
                            !.patient = loc[p].patient, !.token = token])
    /\ UNCHANGED <<now, provider, webhookUrl, userRoles, patients, authUsers, req, pre, scanVars>>
    /\ Track(p)

\* lines 109-165 when the fetch of lines 129-142 rejects: the invitation row is
\* inserted, the rejection is logged by .catch and the call returns 200
CreateWebhookFails_Surfaces(p) ==
    /\ pc[p] = "c_insert_invitation"
    /\ webhookUrl
    /\ faults < MaxFaults
    /\ LET token == FreshToken
       IN  /\ invitations' = invitations \cup
                  {[patient_id |-> loc[p].patient, token |-> token,
                    expires_at |-> loc[p].expiresAt, used_at |-> NULL]}
           /\ loc' = [loc EXCEPT ![p].token = token]
           /\ Reply(p, Error(500, "Failed to trigger n8n SMS workflow"))
    /\ UNCHANGED <<now, provider, webhookUrl, userRoles, patients, authUsers, webhooks, req, pre,
                   scanVars>>
    /\ faults' = faults + 1
    /\ written' = [written EXCEPT ![p] = @ \cup Changed]
    /\ failed' = [failed EXCEPT ![p] = @ \cup {"c_webhook"}]
CreateWebhookFails(p) ==
    /\ pc[p] = "c_insert_invitation"
    /\ webhookUrl
    /\ faults < MaxFaults
    /\ LET token == FreshToken
       IN  /\ invitations' = invitations \cup
                  {[patient_id |-> loc[p].patient, token |-> token,
                    expires_at |-> loc[p].expiresAt, used_at |-> NULL]}
           /\ loc' = [loc EXCEPT ![p].token = token]
           /\ Reply(p, [NoResp EXCEPT !.status = 200, !.success = TRUE,
                            !.patient = loc[p].patient, !.token = token])
    /\ UNCHANGED <<now, provider, webhookUrl, userRoles, patients, authUsers, webhooks, req, pre,
                   scanVars>>
    /\ faults' = faults + 1
    /\ written' = [written EXCEPT ![p] = @ \cup Changed]
    /\ failed' = [failed EXCEPT ![p] = @ \cup {"c_webhook"}]

\* lines 117-123
CreateInsertInvitationFails(p) ==
    /\ pc[p] = "c_insert_invitation"
    /\ Reply(p, Error(500, "Failed to create invitation"))
    /\ UNCHANGED <<now, provider, webhookUrl, userRoles, patients, invitations, authUsers, webhooks,
                   req, loc, pre, scanVars>>
    /\ TrackFault(p)

---------------------------------------------------------------------------
(* action=validate *)

\* lines 168-175, and the timestamp of line 182
ValidateBegin(p, token) ==
    /\ LET r == [NoReq EXCEPT !.op = "validate", !.token = token]
       IN  IF token = NoToken
           THEN Begin(p, r, "done", Error(400, "Token required"))
           ELSE Begin(p, r, "v_lookup", NoResp)
    /\ UNCHANGED <<now, provider, webhookUrl, userRoles, patients, invitations, authUsers, webhooks, scanVars>>
    /\ Track(p)

\* lines 177-201
ValidateLookup(p) ==
    /\ pc[p] = "v_lookup"
    /\ LET rows == InvitationQuery(req[p].token, loc[p].t)
       IN  IF HasSingle(rows)
           THEN Reply(p, [NoResp EXCEPT !.status = 200, !.valid = "true",
                              !.patient = TheRow(rows).patient_id])
           ELSE Reply(p, [Error(200, "Invalid or expired token")
                              EXCEPT !.valid = "false"])
    /\ UNCHANGED <<now, provider, webhookUrl, userRoles, patients, invitations, authUsers, webhooks,
                   req, loc, pre, scanVars>>
    /\ Track(p)

\* lines 185-193 with invError set
ValidateLookupFails_Status500(p) ==
    /\ pc[p] = "v_lookup"
    /\ Reply(p, Error(500, "Invalid or expired token"))
    /\ UNCHANGED <<now, provider, webhookUrl, userRoles, patients, invitations, authUsers, webhooks,
                   req, loc, pre, scanVars>>
    /\ TrackFault(p)
ValidateLookupFails(p) ==
    /\ pc[p] = "v_lookup"
    /\ Reply(p, [Error(200, "Invalid or expired token") EXCEPT !.valid = "false"])
    /\ UNCHANGED <<now, provider, webhookUrl, userRoles, patients, invitations, authUsers, webhooks,
                   req, loc, pre, scanVars>>
    /\ TrackFault(p)

---------------------------------------------------------------------------
(* action=activate *)

ActivateRejection_NoLengthCheck(body) ==
    IF body.token = NoToken \/ Len(body.password) = 0
    THEN "Token and password required"
    ELSE ""

\* lines 208-223: "" when the request passes
ActivateRejection(body) ==
    IF body.token = NoToken \/ Len(body.password) = 0
    THEN "Token and password required"
    ELSE IF Len(body.password) < MIN_PASSWORD_LENGTH
         THEN "Password must be at least 8 characters"
    ELSE ""

\* lines 205-223, and the timestamp of line 231
ActivateBegin(p, body) ==
    /\ LET r == [NoReq EXCEPT !.op = "activate", !.token = body.token,
                     !.password = body.password]
           rej == ActivateRejection(body)
       IN  IF rej = ""
           THEN Begin(p, r, "a_lookup", NoResp)
           ELSE Begin(p, r, "done", Error(400, rej))
    /\ UNCHANGED <<now, provider, webhookUrl, userRoles, patients, invitations, authUsers, webhooks, scanVars>>
    /\ Track(p)

\* lines 206-208 and 312-318: the body cannot be read
ActivateBeginThrows(p, msg) ==
    /\ LET r == [NoReq EXCEPT !.op = "activate", !.thrown = msg]
       IN  Begin(p, r, "done", Error(500, msg))
    /\ UNCHANGED <<now, provider, webhookUrl, userRoles, patients, invitations, authUsers, webhooks, scanVars>>
    /\ Track(p)

\* lines 226-243
ActivateLookup(p) ==
    /\ pc[p] = "a_lookup"
    /\ LET rows == InvitationQuery(req[p].token, loc[p].t)
       IN  IF HasSingle(rows)
           THEN /\ loc' = [loc EXCEPT
                       ![p].patient = TheRow(rows).patient_id,
                       ![p].phone = patients[TheRow(rows).patient_id].phone]
                /\ Goto(p, "a_create_user")
           ELSE /\ Reply(p, Error(400, "Invalid or expired invitation"))
                /\ UNCHANGED loc
    /\ UNCHANGED <<now, provider, webhookUrl, userRoles, patients, invitations, authUsers, webhooks,
                   req, pre, scanVars>>
    /\ Track(p)

\* lines 234-241 with invError set
ActivateLookupFails(p) ==
    /\ pc[p] = "a_lookup"
    /\ Reply(p, Error(400, "Invalid or expired invitation"))
    /\ UNCHANGED <<now, provider, webhookUrl, userRoles, patients, invitations, authUsers, webhooks,
                   req, loc, pre, scanVars>>
    /\ TrackFault(p)

\* part_001 lines 121-141: trigger on_auth_user_created, AFTER INSERT ON auth.users
HandleNewUser(id, role) ==
    IF role # "" THEN userRoles \cup {[user_id |-> id, role |-> role]} ELSE userRoles

\* the identity provider refuses a phone that an identity already holds
PhoneInUse(phone) == \E u \in 1..Len(authUsers) : authUsers[u].phone = phone

CreateUserFailed == Error(500, "Failed to create account. Phone may already be in use.")

ActivateCreateUser_ErrorIgnored(p) ==
    /\ pc[p] = "a_create_user"
    /\ IF PhoneInUse(loc[p].phone)
       THEN /\ Goto(p, "a_insert_role")
            /\ UNCHANGED <<authUsers, userRoles, loc>>
       ELSE /\ authUsers' = Append(authUsers,
                    [phone |-> loc[p].phone, phone_confirm |-> TRUE, role |-> "patient"])
            /\ userRoles' = HandleNewUser(Len(authUsers) + 1, "patient")
            /\ loc' = [loc EXCEPT ![p].user = Len(authUsers) + 1]
            /\ Goto(p, "a_insert_role")
    /\ UNCHANGED <<now, provider, webhookUrl, patients, invitations, webhooks, req, pre, scanVars>>
    /\ Track(p)

\* lines 246-263: supabase.auth.admin.createUser({phone, password,
\* phone_confirm: true, user_metadata: {role: 'patient'}})
ActivateCreateUser_NoUniquePhone(p) ==
    /\ pc[p] = "a_create_user"
    /\ authUsers' = Append(authUsers,
            [phone |-> loc[p].phone, phone_confirm |-> TRUE, role |-> "patient"])
    /\ userRoles' = HandleNewUser(Len(authUsers) + 1, "patient")
    /\ loc' = [loc EXCEPT ![p].user = Len(authUsers) + 1]
    /\ Goto(p, "a_insert_role")
    /\ UNCHANGED <<now, provider, webhookUrl, patients, invitations, webhooks, req, pre, scanVars>>
    /\ Track(p)
ActivateCreateUser(p) ==
    /\ pc[p] = "a_create_user"
    /\ IF PhoneInUse(loc[p].phone)
       THEN /\ Reply(p, CreateUserFailed)
            /\ UNCHANGED <<authUsers, userRoles, loc>>
       ELSE /\ authUsers' = Append(authUsers,
                    [phone |-> loc[p].phone, phone_confirm |-> TRUE, role |-> "patient"])
            /\ userRoles' = HandleNewUser(Len(authUsers) + 1, "patient")
            /\ loc' = [loc EXCEPT ![p].user = Len(authUsers) + 1]
            /\ Goto(p, "a_insert_role")
    /\ UNCHANGED <<now, provider, webhookUrl, patients, invitations, webhooks, req, pre, scanVars>>
    /\ Track(p)

ActivateCreateUserFails_GoesOn(p) ==
    /\ pc[p] = "a_create_user"
    /\ Goto(p, "a_insert_role")
    /\ UNCHANGED <<now, provider, webhookUrl, userRoles, patients, invitations, authUsers, webhooks,
                   req, loc, pre, scanVars>>
    /\ TrackFault(p)

\* lines 255-263 with authError set for any other reason
ActivateCreateUserFails(p) ==
    /\ pc[p] = "a_create_user"
    /\ Reply(p, CreateUserFailed)
    /\ UNCHANGED <<now, provider, webhookUrl, userRoles, patients, invitations, authUsers, webhooks,
                   req, loc, pre, scanVars>>
    /\ TrackFault(p)

\* lines 266-275: the insert breaks UNIQUE (user_id, role) when the trigger
\* already wrote the row; roleError is logged and the call goes on
ActivateInsertRole(p) ==
    /\ pc[p] = "a_insert_role"
    /\ LET row == [user_id |-> loc[p].user, role |-> "patient"]
       IN  userRoles' = IF row \in userRoles THEN userRoles ELSE userRoles \cup {row}
    /\ Goto(p, "a_link_patient")
    /\ UNCHANGED <<now, provider, webhookUrl, patients, invitations, authUsers, webhooks,
                   req, loc, pre, scanVars>>
    /\ Track(p)

ActivateLinkPatient_NoLink(p) ==
    /\ pc[p] = "a_link_patient"
    /\ loc' = [loc EXCEPT ![p].usedAt = now]
    /\ Goto(p, "a_mark_used")
    /\ UNCHANGED <<now, provider, webhookUrl, userRoles, patients, invitations, authUsers, webhooks,
                   req, pre, scanVars>>
    /\ Track(p)

\* lines 278-290: the patient row is linked, then the used_at timestamp is read
ActivateLinkPatient(p) ==
    /\ pc[p] = "a_link_patient"
    /\ patients' = [patients EXCEPT ![loc[p].patient].user_id = loc[p].user]
    /\ loc' = [loc EXCEPT ![p].usedAt = now]
    /\ Goto(p, "a_mark_used")
    /\ UNCHANGED <<now, provider, webhookUrl, userRoles, invitations, authUsers, webhooks,
                   req, pre, scanVars>>
    /\ Track(p)

ActivateLinkPatientFails_Aborts(p) ==
    /\ pc[p] = "a_link_patient"
    /\ Reply(p, Error(500, "Failed to link patient"))
    /\ UNCHANGED <<now, provider, webhookUrl, userRoles, patients, invitations, authUsers, webhooks,
                   req, loc, pre, scanVars>>
    /\ TrackFault(p)

\* lines 283-285 with linkError set: logged, the call goes on
ActivateLinkPatientFails(p) ==
    /\ pc[p] = "a_link_patient"
    /\ loc' = [loc EXCEPT ![p].usedAt = now]
    /\ Goto(p, "a_mark_used")
    /\ UNCHANGED <<now, provider, webhookUrl, userRoles, patients, invitations, authUsers, webhooks,
                   req, pre, scanVars>>
    /\ TrackFault(p)

ActivateSucceeded == [NoResp EXCEPT !.status = 200, !.success = TRUE]

ActivateMarkUsed_NoWrite(p) ==
    /\ pc[p] = "a_mark_used"
    /\ Reply(p, ActivateSucceeded)
    /\ UNCHANGED <<now, provider, webhookUrl, userRoles, patients, invitations, authUsers,
                   webhooks, req, loc, pre, scanVars>>
    /\ Track(p)

\* lines 288-304: .update({used_at}).eq('token', body.token), then 200
ActivateMarkUsed(p) ==
    /\ pc[p] = "a_mark_used"
    /\ invitations' = {IF i.token = req[p].token
                       THEN [i EXCEPT !.used_at = loc[p].usedAt] ELSE i
                       : i \in invitations}
    /\ Reply(p, ActivateSucceeded)
    /\ UNCHANGED <<now, provider, webhookUrl, userRoles, patients, authUsers, webhooks,
                   req, loc, pre, scanVars>>
    /\ Track(p)

\* lines 288-304 when the update fails: its result is not read
ActivateMarkUsedFails(p) ==
    /\ pc[p] = "a_mark_used"
    /\ Reply(p, ActivateSucceeded)
    /\ UNCHANGED <<now, provider, webhookUrl, userRoles, patients, invitations, authUsers, webhooks,
                   req, loc, pre, scanVars>>
    /\ TrackFault(p)

---------------------------------------------------------------------------
(* The rest of the system: staff sign-up, events *)

Staff == {r \in userRoles : r.role = "staff"}

EventIds == {e.id : e \in tasks \cup appointments \cup messages}

\* ids are uuids: a new row gets one no other event has
FreshEventId == Cardinality(EventIds) + 1

\* a step of the rest of the system ends the quiet period of every scan
Disturb == sloc' = [s \in Scanners |-> [sloc[s] EXCEPT !.quiet = FALSE]]

\* Auth.tsx lines 169-205: a staff member signs up with metadata role "staff",
\* the trigger inserts the role row, the explicit insert then repeats it
StaffSignUp ==
    /\ Cardinality(Staff) < MaxStaff
    /\ authUsers' = Append(authUsers,
            [phone |-> NoPhone, phone_confirm |-> FALSE, role |-> "staff"])
    /\ userRoles' = HandleNewUser(Len(authUsers) + 1, "staff")
    /\ Disturb
    /\ UNCHANGED <<now, provider, webhookUrl, faults, patients, invitations, webhooks, pc, req, loc,
                   resp, pre, written, failed, tasks, appointments, messages, notifications,
                   spc, sresp>>

\* a follow-up task is inserted for a patient, created_at defaulting to now
NewTask(priority, status, patient) ==
    /\ Cardinality(EventIds) < MaxEvents
    /\ patient # NULL
    /\ tasks' = tasks \cup {[id |-> FreshEventId, priority |-> priority, status |-> status,
                             patient_id |-> patient, created_at |-> now]}
    /\ Disturb
    /\ UNCHANGED <<now, provider, webhookUrl, faults, userRoles, patients, invitations, authUsers,
                   webhooks, pc, req, loc, resp, pre, written, failed, appointments, messages,
                   notifications, spc, sresp>>

\* an appointment row is written with the given status, updated_at being now
NewAppointment(status, patient) ==
    /\ Cardinality(EventIds) < MaxEvents
    /\ patient # NULL
    /\ appointments' = appointments \cup {[id |-> FreshEventId, status |-> status,
                                           patient_id |-> patient, updated_at |-> now]}
    /\ Disturb
    /\ UNCHANGED <<now, provider, webhookUrl, faults, userRoles, patients, invitations, authUsers,
                   webhooks, pc, req, loc, resp, pre, written, failed, tasks, messages,
                   notifications, spc, sresp>>

\* a message row is inserted, for a patient or for none, created_at defaulting to now
NewMessage(direction, patient) ==
    /\ Cardinality(EventIds) < MaxEvents
    /\ messages' = messages \cup {[id |-> FreshEventId, direction |-> direction,
                                   patient_id |-> patient, created_at |-> now]}
    /\ Disturb
    /\ UNCHANGED <<now, provider, webhookUrl, faults, userRoles, patients, invitations, authUsers,
                   webhooks, pc, req, loc, resp, pre, written, failed, tasks, appointments,
                   notifications, spc, sresp>>

---------------------------------------------------------------------------
(* create-notifications: the scan *)

\* candidates: the events the detector queries of this invocation returned, each
\* with its type, the time of the query and the number of notification rows
\* found for it
NoScanLoc == [staffUsers |-> {}, notifications |-> EmptyBag, second |-> FALSE,
              quiet |-> FALSE, failed |-> {}, candidates |-> {}]

NoScanResp == [status |-> 0, message |-> "", success |-> FALSE,
               notificationsCreated |-> NULL, error |-> ""]

\* patients!inner: the row is kept when it has a patient, which the foreign
\* key patient_id then refers to
InnerPatients(rows) == {e \in rows : e.patient_id # NULL}

\* the rows of the notifications table with this related_id and type
Matching(related_id, type) ==
    LET rows == {n \in DOMAIN notifications : n.related_id = related_id /\ n.type = type}
    IN  BagCardinality([n \in rows |-> notifications[n]])

\* lines 76-81, 122-127, 169-174: .single() gives the row when exactly one
\* row matches, and null data when none or several match
ExistingNotif(related_id, type) == Matching(related_id, type) = 1

\* lines 83-96, 129-142, 176-192: one notification per staff user for every
\* event that has no existingNotif
FanOut(events, type, staffUsers) ==
    SetToBag({[user_id |-> u, type |-> type, related_id |-> e.id] :
                <<e, u>> \in {e \in events : ~ExistingNotif(e.id, type)} \X staffUsers})

\* the rows a detector query returned, as the loop over them meets them
Candidates(events, type) ==
    {[event |-> e, type |-> type, at |-> now, existing |-> Matching(e.id, type)] :
        e \in events}

ScanGoto(s, next) == spc' = [spc EXCEPT ![s] = next]

\* lines 16-30: an invocation begins with an empty notifications array
ScanBegin(s) ==
    /\ spc[s] \in {"idle", "done"}
    /\ BagCardinality(notifications) < MaxNotifications
    /\ ScanGoto(s, "s_staff")
    /\ sloc' = [sloc EXCEPT ![s] =
                    [NoScanLoc EXCEPT !.second = spc[s] = "done" /\ sresp[s].success
                                                 /\ sloc[s].quiet,
                                      !.quiet = TRUE]]
    /\ sresp' = [sresp EXCEPT ![s] = NoScanResp]
    /\ UNCHANGED <<now, provider, webhookUrl, faults, userRoles, invVars, tasks, appointments,
                   messages, notifications>>

\* lines 33-49: the staff query; with no staff the scan returns at once
ScanStaff(s) ==
    /\ spc[s] = "s_staff"
    /\ LET staffUsers == {r.user_id : r \in Staff}
       IN  IF staffUsers = {}
           THEN /\ ScanGoto(s, "done")
                /\ sresp' = [sresp EXCEPT ![s] =
                        [NoScanResp EXCEPT !.status = 200,
                                           !.message = "No staff users found"]]
                /\ UNCHANGED sloc
           ELSE /\ ScanGoto(s, "s_tasks")
                /\ sloc' = [sloc EXCEPT ![s].staffUsers = staffUsers]
                /\ UNCHANGED sresp
    /\ UNCHANGED <<now, provider, webhookUrl, faults, userRoles, invVars, tasks, appointments,
                   messages, notifications>>

\* lines 52-98: urgent tasks of the last hour
ScanTasks(s) ==
    /\ spc[s] = "s_tasks"
    /\ LET urgentTasks == {t \in InnerPatients(tasks) :
                                /\ t.priority = "HIGH"
                                /\ t.status = "OPEN"
                                /\ t.created_at >= now - LAST_HOUR_MS}
       IN  sloc' = [sloc EXCEPT ![s].notifications =
                        @ (+) FanOut(urgentTasks, "urgent_task", sloc[s].staffUsers),
                                 ![s].candidates = @ \cup Candidates(urgentTasks, "urgent_task")]
    /\ ScanGoto(s, "s_appointments")
    /\ UNCHANGED <<now, provider, webhookUrl, faults, userRoles, invVars, tasks, appointments,
                   messages, notifications, sresp>>

\* lines 101-144: appointments missed in the last hour
ScanAppointments(s) ==
    /\ spc[s] = "s_appointments"
    /\ LET missedAppointments == {a \in InnerPatients(appointments) :
                                        /\ a.status = "MISSED"
                                        /\ a.updated_at >= now - LAST_HOUR_MS}
       IN  sloc' = [sloc EXCEPT ![s].notifications =
                        @ (+) FanOut(missedAppointments, "missed_appointment",
                                     sloc[s].staffUsers),
                                 ![s].candidates =
                        @ \cup Candidates(missedAppointments, "missed_appointment")]
    /\ ScanGoto(s, "s_messages")
    /\ UNCHANGED <<now, provider, webhookUrl, faults, userRoles, invVars, tasks, appointments,
                   messages, notifications, sresp>>

\* lines 147-194: inbound messages of the last 10 minutes
ScanMessages_HourWindow(s) ==
    /\ spc[s] = "s_messages"
    /\ LET newMessages == {m \in InnerPatients(messages) :
                                /\ m.direction = "INBOUND"
                                /\ m.created_at >= now - LAST_HOUR_MS}
       IN  sloc' = [sloc EXCEPT ![s].notifications =
                        @ (+) FanOut(newMessages, "patient_message", sloc[s].staffUsers),
                                 ![s].candidates = @ \cup Candidates(newMessages, "patient_message")]
    /\ ScanGoto(s, "s_insert")
    /\ UNCHANGED <<now, provider, webhookUrl, faults, userRoles, invVars, tasks, appointments,
                   messages, notifications, sresp>>
ScanMessages(s) ==
    /\ spc[s] = "s_messages"
    /\ LET newMessages == {m \in InnerPatients(messages) :
                                /\ m.direction = "INBOUND"
                                /\ m.created_at >= now - LAST_10_MINUTES_MS}
       IN  sloc' = [sloc EXCEPT ![s].notifications =
                        @ (+) FanOut(newMessages, "patient_message", sloc[s].staffUsers),
                                 ![s].candidates = @ \cup Candidates(newMessages, "patient_message")]
    /\ ScanGoto(s, "s_insert")
    /\ UNCHANGED <<now, provider, webhookUrl, faults, userRoles, invVars, tasks, appointments,
                   messages, notifications, sresp>>

ScanInsert_SkipsExisting(s) ==
    /\ spc[s] = "s_insert"
    /\ notifications' = notifications (+)
            SetToBag({n \in DOMAIN sloc[s].notifications : n \notin DOMAIN notifications})
    /\ sresp' = [sresp EXCEPT ![s] =
            [NoScanResp EXCEPT !.status = 200, !.success = TRUE,
                               !.notificationsCreated = BagCardinality(sloc[s].notifications)]]
    /\ ScanGoto(s, "done")
    /\ UNCHANGED <<now, provider, webhookUrl, faults, userRoles, invVars, tasks, appointments,
                   messages, sloc>>

\* lines 196-220: the bulk insert, skipped for an empty array, and the response
ScanInsert(s) ==
    /\ spc[s] = "s_insert"
    /\ notifications' = IF BagCardinality(sloc[s].notifications) > 0
                        THEN notifications (+) sloc[s].notifications
                        ELSE notifications
    /\ sresp' = [sresp EXCEPT ![s] =
            [NoScanResp EXCEPT !.status = 200, !.success = TRUE,
                               !.notificationsCreated = BagCardinality(sloc[s].notifications)]]
    /\ ScanGoto(s, "done")
    /\ UNCHANGED <<now, provider, webhookUrl, faults, userRoles, invVars, tasks, appointments,
                   messages, sloc>>

\* the store operation of the step the invocation s is at fails
ScanFails(s) ==
    /\ faults < MaxFaults
    /\ faults' = faults + 1
    /\ sloc' = [sloc EXCEPT ![s].failed = @ \cup {spc[s]}]

\* lines 221-230: a thrown error is answered with status 500 and its message,
\* or 'Unknown error' when it is no instance of Error
ScanThrows(s) ==
    /\ \E msg \in {"message of the error", "Unknown error"} :
            sresp' = [sresp EXCEPT ![s] = [NoScanResp EXCEPT !.status = 500, !.error = msg]]
    /\ ScanGoto(s, "done")

\* lines 38-41: staffError is thrown
ScanStaffFails(s) ==
    /\ spc[s] = "s_staff"
    /\ ScanFails(s)
    /\ ScanThrows(s)
    /\ UNCHANGED <<now, provider, webhookUrl, userRoles, invVars, tasks, appointments, messages,
                   notifications>>

ScanTasksFails_Throws(s) ==
    /\ spc[s] = "s_tasks"
    /\ ScanFails(s)
    /\ ScanThrows(s)
    /\ UNCHANGED <<now, provider, webhookUrl, userRoles, invVars, tasks, appointments, messages,
                   notifications>>

\* lines 69-70: tasksError is logged, the detector adds nothing
ScanTasksFails(s) ==
    /\ spc[s] = "s_tasks"
    /\ ScanFails(s)
    /\ ScanGoto(s, "s_appointments")
    /\ UNCHANGED <<now, provider, webhookUrl, userRoles, invVars, tasks, appointments, messages,
                   notifications, sresp>>

\* lines 115-116: appointmentsError is logged, the detector adds nothing
ScanAppointmentsFails(s) ==
    /\ spc[s] = "s_appointments"
    /\ ScanFails(s)
    /\ ScanGoto(s, "s_messages")
    /\ UNCHANGED <<now, provider, webhookUrl, userRoles, invVars, tasks, appointments, messages,
                   notifications, sresp>>

\* lines 162-163: messagesError is logged, the detector adds nothing
ScanMessagesFails(s) ==
    /\ spc[s] = "s_messages"
    /\ ScanFails(s)
    /\ ScanGoto(s, "s_insert")
    /\ UNCHANGED <<now, provider, webhookUrl, userRoles, invVars, tasks, appointments, messages,
                   notifications, sresp>>

\* lines 204-207: insertError is thrown; with an empty array there is no insert
ScanInsertFails(s) ==
    /\ spc[s] = "s_insert"
    /\ BagCardinality(sloc[s].notifications) > 0
    /\ ScanFails(s)
    /\ ScanThrows(s)
    /\ UNCHANGED <<now, provider, webhookUrl, userRoles, invVars, tasks, appointments, messages,
                   notifications>>

---------------------------------------------------------------------------
(* AuthContext.tsx: the AuthProvider *)

NoRole == ""            \* role null

\* the users that sign in, and the row user_roles holds for each
AuthUserIds == {1, 2}
FetchedRole(userId) == IF userId = 1 THEN "staff" ELSE "patient"

\* lines 33-36 and 61: the state after the first render, and what the effect
\* awaits: the getSession promise, the role fetches in flight (each with the
\* user it was started for), the await of signOut; events counts the
\* auth-state events and signOut calls so far
NoAuth == [user |-> NoId, session |-> NoId, role |-> NoRole, loading |-> TRUE,
           mounted |-> TRUE, getSession |-> "pending", fetches |-> {},
           signOut |-> "idle", events |-> 0]

AuthUnchanged ==
    UNCHANGED <<now, userRoles, webhookUrl, faults, invVars, scanVars>>

\* lines 65-82 and 93-110, up to the await: the session is stored; with a user
\* the role fetch is started, without one the role is cleared
SessionArrives(a, sessionUser) ==
    IF ~a.mounted THEN a
    ELSE IF sessionUser # NoId
    THEN [a EXCEPT !.session = sessionUser, !.user = sessionUser,
                   !.fetches = @ \cup {[n |-> a.events, user |-> sessionUser]}]
    ELSE [a EXCEPT !.session = NoId, !.user = NoId, !.role = NoRole, !.loading = FALSE]

\* lines 64-82: supabase.provider.getSession() resolves
GetSessionResolves(sessionUser) ==
    /\ provider.getSession = "pending"
    /\ provider.events < MaxAuthEvents
    /\ provider' = [SessionArrives([provider EXCEPT !.events = @ + 1], sessionUser)
                    EXCEPT !.getSession = "settled"]
    /\ AuthUnchanged

\* lines 83-88: supabase.provider.getSession() rejects
GetSessionRejects ==
    /\ provider.getSession = "pending"
    /\ provider' = [provider EXCEPT !.getSession = "settled",
                            !.loading = IF provider.mounted THEN FALSE ELSE @]
    /\ AuthUnchanged

\* lines 91-111: an auth-state event arrives with its session
AuthStateChange(sessionUser) ==
    /\ provider.events < MaxAuthEvents
    /\ provider' = SessionArrives([provider EXCEPT !.events = @ + 1], sessionUser)
    /\ AuthUnchanged

\* lines 72-76 and 100-104: a role fetch returns and its caller goes on
FetchUserRoleReturns(f) ==
    /\ f \in provider.fetches
    /\ provider' = IF provider.mounted
               THEN [provider EXCEPT !.fetches = @ \ {f}, !.role = FetchedRole(f.user),
                                 !.loading = FALSE]
               ELSE [provider EXCEPT !.fetches = @ \ {f}]
    /\ AuthUnchanged

\* line 121: signOut is called and awaits supabase.provider.signOut()
SignOutBegin ==
    /\ provider.signOut = "idle"
    /\ provider.events < MaxAuthEvents
    /\ provider' = [provider EXCEPT !.signOut = "awaiting", !.events = @ + 1]
    /\ AuthUnchanged

\* lines 122-125
SignOutContinues ==
    /\ provider.signOut = "awaiting"
    /\ provider' = [provider EXCEPT !.signOut = "idle", !.user = NoId, !.session = NoId,
                            !.role = NoRole]
    /\ AuthUnchanged

\* lines 114-117: the cleanup of the effect
Unmount ==
    /\ provider.mounted
    /\ provider' = [provider EXCEPT !.mounted = FALSE]
    /\ AuthUnchanged

---------------------------------------------------------------------------
(* The clock *)

\* the invitation runs see the clock advance by half the expiry period at a time
ClockStep == (EXPIRY_DAYS * DAY_MS) \div 2

Tick ==
    /\ now < MaxTicks * ClockStep
    /\ now' = now + ClockStep
    /\ UNCHANGED <<provider, userRoles, webhookUrl, faults, invVars, scanVars>>

\* the scan runs see the clock advance by an hour at a time
ScanTick ==
    /\ now < MaxScanTicks * LAST_HOUR_MS
    /\ now' = now + LAST_HOUR_MS
    /\ UNCHANGED <<provider, userRoles, webhookUrl, faults, invVars, scanVars>>

\* the timed scans see the clock advance by half the period of the cron job
TimerStep == CRON_PERIOD_MS \div 2

\* time passes for the timed scans: while no invocation runs, or once inside
\* an invocation before its message query, so that the invocation is over
\* before the next one is due; when the time reaches a multiple of the period
\* the job is due again
TimerTick(s) ==
    /\ now < MaxTimerTicks * TimerStep
    /\ \/ spc[s] = "done"
       \/ spc[s] \in {"s_staff", "s_tasks", "s_appointments", "s_messages"}
            /\ now % CRON_PERIOD_MS = 0
    /\ now' = now + TimerStep
    /\ spc' = [spc EXCEPT ![s] =
                IF @ = "done" /\ now' % CRON_PERIOD_MS = 0 THEN "idle" ELSE @]
    /\ UNCHANGED <<provider, userRoles, webhookUrl, faults, invVars, tasks, appointments, messages,
                   notifications, sloc, sresp>>

\* part_002 lines 10-22: the cron job posts to create-notifications when due
TimerFires(s) ==
    /\ spc[s] = "idle"
    /\ now % CRON_PERIOD_MS = 0
    /\ ScanBegin(s)

\* the staff are there before the first timed scan
StaffSignUpAtStart ==
    /\ now = 0
    /\ spc["s1"] = "idle"
    /\ StaffSignUp

---------------------------------------------------------------------------
(* Specifications *)

Init ==
    /\ now = 0
    /\ patients = <<>>
    /\ invitations = {}
    /\ authUsers = <<>>
    /\ userRoles = {}
    /\ webhooks = {}
    /\ webhookUrl \in BOOLEAN
    /\ faults = 0
    /\ pc = [p \in Handlers |-> "idle"]
    /\ req = [p \in Handlers |-> NoReq]
    /\ loc = [p \in Handlers |-> NoLoc]
    /\ resp = [p \in Handlers |-> NoResp]
    /\ pre = [p \in Handlers |-> NoPre]
    /\ written = [p \in Handlers |-> {}]
    /\ failed = [p \in Handlers |-> {}]
    /\ tasks = {}
    /\ appointments = {}
    /\ messages = {}
    /\ notifications = EmptyBag
    /\ spc = [s \in Scanners |-> "idle"]
    /\ sloc = [s \in Scanners |-> NoScanLoc]
    /\ sresp = [s \in Scanners |-> NoScanResp]
    /\ provider = NoAuth

\* a request of the invitation handler arrives on handler p
Arrives(p) ==
    \/ \E r \in CreateRequests : CreateBegin(p, r[1], r[2])
    \/ \E token \in TokenInputs : ValidateBegin(p, token)
    \/ \E body \in ActivateBodies : ActivateBegin(p, body)

\* the call running on handler p makes its next store operation, which works
CreateContinues(p) ==
    \/ CreatePrecheck(p)
    \/ CreateInsertPatient(p)
    \/ CreateInsertInvitation(p)

ValidateContinues(p) == ValidateLookup(p)

ActivateContinues(p) ==
    \/ ActivateLookup(p)
    \/ ActivateCreateUser(p)
    \/ ActivateInsertRole(p)
    \/ ActivateLinkPatient(p)
    \/ ActivateMarkUsed(p)

Continues(p) == CreateContinues(p) \/ ValidateContinues(p) \/ ActivateContinues(p)

\* a well-formed create, validate or activate request arrives on handler p
ArrivesConc(p) ==
    \/ CreateBegin(p, TRUE, Body("Jane", "Doe", PhoneA))
    \/ ValidateBegin(p, 1)
    \/ \E token \in Tokens :
            ActivateBegin(p, [token |-> token, password |-> Pw(MIN_PASSWORD_LENGTH)])

\* the next store operation of the call running on handler p fails
Fault(p) ==
    \/ CreatePrecheckFails(p)
    \/ CreateInsertPatientFails(p)
    \/ CreateInsertInvitationFails(p)
    \/ CreateWebhookFails(p)
    \/ ValidateLookupFails(p)
    \/ ActivateLookupFails(p)
    \/ ActivateCreateUserFails(p)
    \/ ActivateLinkPatientFails(p)
    \/ ActivateMarkUsedFails(p)

\* requests served one after the other, the store working
Next ==
    \/ Tick
    \/ Arrives("h1")
    \/ Continues("h1")
Spec == Init /\ [][Next]_vars

\* requests served one after the other, store operations may fail
NextFaults ==
    \/ Tick
    \/ Arrives("h1")
    \/ Continues("h1")
    \/ Fault("h1")
SpecFaults == Init /\ [][NextFaults]_vars

\* a request whose body cannot be read arrives on handler p
Throws(p) ==
    \/ \E auth \in BOOLEAN, msg \in ThrownMessages : CreateBeginThrows(p, auth, msg)
    \/ \E msg \in ThrownMessages : ActivateBeginThrows(p, msg)

\* requests served one after the other, store operations may fail and bodies
\* may be unreadable
NextThrows ==
    \/ Arrives("h1")
    \/ Continues("h1")
    \/ Fault("h1")
    \/ Throws("h1")
SpecThrows == Init /\ [][NextThrows]_vars

\* scans started by the cron job every 10 minutes, one after the other, the
\* store working, inbound messages arriving at any time
TimedScans(s) ==
    \/ TimerFires(s)
    \/ ScanStaff(s)
    \/ ScanTasks(s)
    \/ ScanAppointments(s)
    \/ ScanMessages(s)
    \/ ScanInsert(s)

NextScanTimer ==
    \/ TimerTick("s1")
    \/ StaffSignUpAtStart
    \/ NewMessage("INBOUND", 1)
    \/ TimedScans("s1")
SpecScanTimer == Init /\ [][NextScanTimer]_vars

\* the AuthProvider: the session result, auth-state events, role fetch results
\* and signOut in any order
NextAuth ==
    \/ \E u \in AuthUserIds \cup {NoId} : GetSessionResolves(u)
    \/ GetSessionRejects
    \/ \E u \in AuthUserIds \cup {NoId} : AuthStateChange(u)
    \/ \E f \in provider.fetches : FetchUserRoleReturns(f)
    \/ SignOutBegin
    \/ SignOutContinues
    \/ Unmount
SpecAuth == Init /\ [][NextAuth]_vars

\* create requests with a phone of every shape, served one after the other
NextPhone ==
    \/ \E ph \in PhoneVariants : CreateBegin("h1", TRUE, Body("Jane", "Doe", ph))
    \/ CreateContinues("h1")
SpecPhone == Init /\ [][NextPhone]_vars

\* create, validate and activate requests served by two handlers at once, their store
\* operations interleaved, the identity provider possibly failing
NextConc ==
    \/ \E p \in Handlers : ArrivesConc(p)
    \/ \E p \in Handlers : CreateContinues(p)
    \/ \E p \in Handlers : ValidateContinues(p)
    \/ \E p \in Handlers : ActivateContinues(p)
    \/ \E p \in Handlers : ActivateCreateUserFails(p)
SpecConc == Init /\ [][NextConc]_vars

\* an event is written by the rest of the system
NewEvent ==
    \E patient \in {NULL, 1} :
        \/ \E priority \in {"HIGH", "MEDIUM"}, status \in {"OPEN", "DONE"} :
                NewTask(priority, status, patient)
        \/ \E status \in {"MISSED", "SCHEDULED"} : NewAppointment(status, patient)
        \/ \E direction \in {"INBOUND", "OUTBOUND"} : NewMessage(direction, patient)

\* the scan invocation s makes its next step
Scans(s) ==
    \/ ScanBegin(s)
    \/ ScanStaff(s)
    \/ ScanTasks(s)
    \/ ScanAppointments(s)
    \/ ScanMessages(s)
    \/ ScanInsert(s)

\* scan invocations that never overlap, staff signing up and events being
\* written in between and meanwhile
NextScan ==
    \/ ScanTick
    \/ StaffSignUp
    \/ NewEvent
    \/ Scans("s1")

SpecScan == Init /\ [][NextScan]_vars

\* an event that its detector selects is written by the rest of the system
NewCandidate ==
    \/ NewTask("HIGH", "OPEN", 1)
    \/ NewAppointment("MISSED", 1)
    \/ NewMessage("INBOUND", 1)

\* the store operation of the scan invocation s fails at its next step
ScanFault(s) ==
    \/ ScanStaffFails(s)
    \/ ScanTasksFails(s)
    \/ ScanAppointmentsFails(s)
    \/ ScanMessagesFails(s)
    \/ ScanInsertFails(s)

\* scan invocations that never overlap and whose store operations may fail
NextScanFaults ==
    \/ StaffSignUp
    \/ NewCandidate
    \/ Scans("s1")
    \/ ScanFault("s1")

SpecScanFaults == Init /\ [][NextScanFaults]_vars

\* two scan invocations that may overlap, their steps interleaved, while staff
\* sign up and urgent tasks are written
NextScanConc ==
    \/ StaffSignUp
    \/ NewTask("HIGH", "OPEN", 1)
    \/ \E s \in Scanners : Scans(s)

SpecScanConc == Init /\ [][NextScanConc]_vars

\* a staff member signs up between two scans
StaffSignUpBetweenScans ==
    /\ \A s \in Scanners : spc[s] \in {"idle", "done"}
    /\ StaffSignUp

\* scan invocations that never overlap, staff signing up between them only,
\* events being written at any time
NextScanStaff ==
    \/ StaffSignUpBetweenScans
    \/ NewCandidate
    \/ Scans("s1")

SpecScanStaff == Init /\ [][NextScanStaff]_vars

---------------------------------------------------------------------------
(* Claims about the invitation handler, requests served one after the other *)

Returned(p, op) == pc[p] = "done" /\ req[p].op = op

LongEnough(pw) == Len(pw) >= 8

\* the invitation of the request's token, as the call on p began, was unused and
\* not yet expired at the time the call read
LiveBefore(p) ==
    \E i \in pre[p].invitation : i.used_at = NULL /\ i.expires_at > loc[p].t

UsedBefore(p) == \E i \in pre[p].invitation : i.used_at # NULL

ExpiredBefore(p) == \E i \in pre[p].invitation : i.expires_at < loc[p].t

\* C1: validate(token) answers valid:true exactly when an invitation row with
\* that token exists whose used_at is null and whose expires_at is strictly
\* later than the time the call read; with a token supplied, every other case
\* (unknown token, used, or time >= expires_at though never used) is valid:false.
C1_ValidIffUnusedAndUnexpired ==
    \A p \in Handlers :
        (Returned(p, "validate") /\ req[p].token # NoToken) =>
            LET live == \E i \in invitations :
                            /\ i.token = req[p].token
                            /\ i.used_at = NULL
                            /\ i.expires_at > loc[p].t
            IN  resp[p].valid = (IF live THEN "true" ELSE "false")

\* validate was answered valid:false for a never-used invitation at the very
\* instant of its expiry
C1_Witness ==
    /\ Returned("h1", "validate")
    /\ resp["h1"].valid = "false"
    /\ \E i \in invitations :
            i.token = req["h1"].token /\ i.used_at = NULL /\ i.expires_at = loc["h1"].t

\* C2: activate called twice in sequence with the same token, valid before the
\* first call, and a password of 8 or more characters: the first call returns
\* success, the second fails with status 400 and the invalid-or-expired error.
C2_SecondActivateRejected ==
    \A p \in Handlers :
        (Returned(p, "activate") /\ LongEnough(req[p].password)) =>
            /\ LiveBefore(p) => (resp[p].status = 200 /\ resp[p].success)
            /\ pre[p].after = "activate" =>
                    /\ resp[p].status = 400
                    /\ resp[p].error = "Invalid or expired invitation"

C2_Witness ==
    /\ Returned("h1", "activate")
    /\ LongEnough(req["h1"].password)
    /\ pre["h1"].after = "activate"
    /\ resp["h1"].status = 400

\* C5 as stated: once an invitation is used or the time has passed its
\* expires_at, every later validate of its token answers valid:false and every
\* later activate of its token fails with the invalid-or-expired error.
C5_AsStated ==
    \A p \in Handlers :
        (UsedBefore(p) \/ ExpiredBefore(p)) =>
            /\ Returned(p, "validate") =>
                    /\ resp[p].valid = "false"
                    /\ resp[p].error = "Invalid or expired token"
            /\ Returned(p, "activate") =>
                    /\ resp[p].status = 400
                    /\ resp[p].error = "Invalid or expired invitation"

C5_Answers ==
    \A p \in Handlers :
        (UsedBefore(p) \/ ExpiredBefore(p)) =>
            /\ Returned(p, "validate") =>
                    /\ resp[p].valid = "false"
                    /\ resp[p].error = "Invalid or expired token"
            /\ (Returned(p, "activate") /\ LongEnough(req[p].password)) =>
                    /\ resp[p].status = 400
                    /\ resp[p].error = "Invalid or expired invitation"

Terminal(i, t) == i.used_at # NULL \/ i.expires_at < t

C5_Stays ==
    \A i \in invitations :
        Terminal(i, now) =>
            \E j \in invitations' : j.token = i.token /\ Terminal(j, now')

\* C5, amended: used and expired are terminal: an invitation that is used, or
\* whose expires_at the time has passed, stays so, and every later validate of
\* its token answers valid:false and every later activate of its token that
\* carries a password of 8 or more characters fails with status 400 and the
\* invalid-or-expired error, the same answers for an expired as for a used one.
C5_UsedAndExpiredAreTerminal == []C5_Answers /\ [][C5_Stays]_vars

\* activate with a long enough password was refused for an invitation that
\* expired without ever being used
C5_Witness ==
    /\ Returned("h1", "activate")
    /\ LongEnough(req["h1"].password)
    /\ \E i \in pre["h1"].invitation : i.used_at = NULL /\ i.expires_at < loc["h1"].t
    /\ resp["h1"].status = 400

\* C7: a validate of the token a successful create has just returned, made
\* before 7 days have gone by and with no activate in between, answers
\* valid:true with the patient row that create inserted.
C7_ValidateAfterCreate ==
    \A p \in Handlers :
        ( /\ Returned(p, "validate")
          /\ pre[p].after = "create"
          /\ loc[p].t < pre[p].afterBegan + 7 * DAY_MS ) =>
            /\ resp[p].valid = "true"
            /\ resp[p].patient = pre[p].afterPatient
            /\ resp[p].patient \in 1..Len(patients)

\* such a validate, made some time after the create began
C7_Witness ==
    /\ Returned("h1", "validate")
    /\ pre["h1"].after = "create"
    /\ loc["h1"].t > pre["h1"].afterBegan
    /\ resp["h1"].valid = "true"

\* C8 as stated: after any create call, whether it returned success or an
\* error, the patient row it inserted exists if and only if its invitation row
\* exists.
C8_PatientIffInvitation ==
    \A p \in Handlers :
        Returned(p, "create") =>
            ( (loc[p].patient # NoId /\ loc[p].patient \in 1..Len(patients))
              <=> (\E i \in invitations : i.patient_id = loc[p].patient) )

\* C9: a create or activate request that input validation rejects is answered
\* with status 400 and writes nothing: no patient, invitation, identity or role
\* row is created or changed and no webhook is sent.
C9_RejectedRequestsWriteNothing ==
    \A p \in Handlers :
        /\ ( /\ Returned(p, "create")
             /\ req[p].auth
             /\ \/ req[p].first_name = ""
                \/ req[p].last_name = ""
                \/ req[p].phone \notin {PhoneA, PhoneB} ) =>
                (resp[p].status = 400 /\ written[p] = {})
        /\ ( /\ Returned(p, "activate")
             /\ (req[p].token = NoToken \/ ~LongEnough(req[p].password)) ) =>
                (resp[p].status = 400 /\ written[p] = {})

\* activate with a password of 7 characters was rejected for a token that was
\* valid
C9_Witness ==
    /\ Returned("h1", "activate")
    /\ Len(req["h1"].password) = 7
    /\ LiveBefore("h1")
    /\ resp["h1"].status = 400

\* C10: create with a well-formed request whose phone a patient row already
\* holds returns status 409 and leaves the patient rows and the invitation
\* rows as they were.
C10_DuplicatePhoneIs409 ==
    \A p \in Handlers :
        ( /\ Returned(p, "create")
          /\ req[p].auth
          /\ req[p].first_name # "" /\ req[p].last_name # ""
          /\ req[p].phone \in {PhoneA, PhoneB}
          /\ pre[p].patients # {} ) =>
            /\ resp[p].status = 409
            /\ "patients" \notin written[p]
            /\ "invitations" \notin written[p]

C10_Witness ==
    /\ Returned("h1", "create")
    /\ pre["h1"].patients # {}
    /\ resp["h1"].status = 409

\* C13: after create, validate and activate (with a password of 8 or more
\* characters) have each succeeded in that order for one patient, an identity
\* exists that is bound to the patient's phone and phone-confirmed, it holds
\* the role patient, and the patient row's user_id is that identity's id.
C13_ActivatedPatientIsLinked ==
    \A p \in Handlers :
        (/\ Returned(p, "activate")
         /\ resp[p].success
         /\ LongEnough(req[p].password)
         /\ pre[p].validated) =>
            LET patient == patients[loc[p].patient]
                user == patient.user_id
            IN  /\ loc[p].patient = pre[p].afterPatient
                /\ user \in 1..Len(authUsers)
                /\ user = loc[p].user
                /\ authUsers[user].phone = patient.phone
                /\ authUsers[user].phone_confirm
                /\ [user_id |-> user, role |-> "patient"] \in userRoles
                /\ \A u \in 1..Len(authUsers) :
                        authUsers[u].phone = patient.phone => u = user

C13_Witness ==
    /\ Returned("h1", "activate")
    /\ resp["h1"].success
    /\ LongEnough(req["h1"].password)
    /\ pre["h1"].validated
    /\ patients[loc["h1"].patient].phone = PhoneA
    /\ patients[loc["h1"].patient].user_id = loc["h1"].user

\* the create request on p lacks one of first_name, last_name, phone
MissingRequiredFields(p) ==
    req[p].first_name = "" \/ req[p].last_name = "" \/ req[p].phone = NoPhone

\* '+61', one digit from {2,3,4,7,8}, then exactly 8 digits
AustralianFormat(s) ==
    /\ Len(s) = 12
    /\ s[1] = "+" /\ s[2] = "6" /\ s[3] = "1"
    /\ s[4] \in {"2", "3", "4", "7", "8"}
    /\ \A i \in 5..12 : s[i] \in Digits

\* the create call on p was refused for the format of its phone
RejectedForFormat(p) ==
    /\ pc[p] = "done"
    /\ resp[p].status = 400
    /\ resp[p].error = "Invalid phone format"

\* C20: create accepts a phone exactly when it is '+61', then one digit from
\* {2,3,4,7,8}, then exactly 8 digits; every other string is rejected with
\* status 400.
C20_PhoneAcceptedIffAustralianFormat ==
    \A p \in Handlers :
        (req[p].op = "create" /\ req[p].auth /\ ~MissingRequiredFields(p)) =>
            /\ RejectedForFormat(p) <=> ~AustralianFormat(req[p].phone)
            /\ AustralianFormat(req[p].phone) =>
                    (pc[p] = "done" => resp[p].status \in {200, 409})

\* a phone with 13 characters, all of the right kind, was rejected
C20_Witness ==
    /\ Returned("h1", "create")
    /\ Len(req["h1"].phone) = 13
    /\ AustralianFormat(SubSeq(req["h1"].phone, 1, 12))
    /\ req["h1"].phone[13] \in Digits
    /\ RejectedForFormat("h1")

\* the time t is at or past the expires_at of invitation i
Expired(i, t) == i.expires_at <= t

\* and invitation i was never used
ExpiredUnused(i, t) == i.used_at = NULL /\ Expired(i, t)

\* a validate answering valid:true names a patient none of whose invitations
\* had expired by the time the call read
C27_NoValidAfterExpiry ==
    \A p \in Handlers :
        (Returned(p, "validate") /\ resp[p].valid = "true") =>
            \A i \in invitations :
                i.patient_id = resp[p].patient => ~Expired(i, loc[p].t)

\* an invitation that has expired keeps its token, patient and expires_at (an
\* activate that read it before the expiry may still mark it used), the time
\* never goes back, and no patient row is removed
C27_ExpiredStays ==
    /\ now' >= now
    /\ Len(patients') >= Len(patients)
    /\ \A i \in invitations :
            Expired(i, now) =>
                \E j \in invitations' :
                    /\ j.token = i.token
                    /\ j.patient_id = i.patient_id
                    /\ j.expires_at = i.expires_at

\* C27: once the invitation of a patient has expired unused, no create,
\* validate or activate call makes validate answer valid:true for a token of
\* that patient again.
C27_ExpiredPatientNeverValidAgain == []C27_NoValidAfterExpiry /\ [][C27_ExpiredStays]_vars

\* a create for the phone of a patient whose invitation had expired unused was
\* refused with 409, so no new invitation was issued
C27_Witness ==
    /\ Returned("h1", "create")
    /\ resp["h1"].status = 409
    /\ \E i \in invitations :
            /\ i.patient_id \in pre["h1"].patients
            /\ ExpiredUnused(i, loc["h1"].t)

---------------------------------------------------------------------------
(* Claims about the invitation handler, calls interleaved *)

\* a call about to write used_at finds it null
C6_NoSecondWrite ==
    \A p \in Handlers :
        pc[p] = "a_mark_used" =>
            \A i \in invitations : i.token = req[p].token => i.used_at = NULL

\* a step keeps every invitation row, changes nothing of it but used_at, and
\* changes used_at only from null to a timestamp, in the last step of an
\* activate call given its token, whose identity creation succeeded
C6_OnlyActivateWrites ==
    \A i \in invitations :
        /\ \E j \in invitations' : j.token = i.token
        /\ \A j \in invitations' :
                j.token = i.token =>
                    /\ j.patient_id = i.patient_id
                    /\ j.expires_at = i.expires_at
                    /\ j.used_at # i.used_at =>
                            /\ i.used_at = NULL
                            /\ j.used_at >= 0
                            /\ \E p \in Handlers :
                                    /\ req[p].op = "activate"
                                    /\ req[p].token = i.token
                                    /\ pc[p] = "a_mark_used"
                                    /\ pc'[p] = "done"
                                    /\ loc[p].user \in 1..Len(authUsers)
                                    /\ authUsers[loc[p].user].phone = loc[p].phone

\* C6: under any interleaving of create, validate and activate calls an invitation row
\* is mutated at most once: used_at changes only from null to a timestamp, only
\* inside an activate call whose identity creation succeeded, and is never
\* written a second time or reset to null.
C6_UsedAtWrittenAtMostOnce == []C6_NoSecondWrite /\ [][C6_OnlyActivateWrites]_vars

\* two activate calls of one token ran at once: one marked the invitation
\* used, the other was refused by the identity provider
C6_Witness ==
    /\ Returned("h1", "activate") /\ Returned("h2", "activate")
    /\ req["h1"].token = req["h2"].token
    /\ resp["h1"].status = 200
    /\ resp["h2"].status = 500
    /\ \E i \in invitations : i.token = req["h1"].token /\ i.used_at # NULL

\* the identities created for the patient of invitation i
IdentitiesOf(i) ==
    {u \in 1..Len(authUsers) : authUsers[u].phone = patients[i.patient_id].phone}

\* C25: under any interleaving of activate calls given the same valid token at
\* most one identity is created for the patient and at most one of the calls
\* returns success.
C25_OneIdentityOneSuccess ==
    /\ \A i \in invitations : Cardinality(IdentitiesOf(i)) <= 1
    /\ \A p, q \in Handlers :
            (/\ p # q
             /\ Returned(p, "activate") /\ Returned(q, "activate")
             /\ req[p].token = req[q].token) =>
                ~(resp[p].success /\ resp[q].success)

\* two activate calls of one token both found the invitation live; the one
\* that came second to the identity provider was refused, the other succeeded
C25_Witness ==
    /\ Returned("h1", "activate") /\ Returned("h2", "activate")
    /\ req["h1"].token = req["h2"].token
    /\ loc["h1"].patient # NoId /\ loc["h2"].patient = loc["h1"].patient
    /\ resp["h2"].success
    /\ ~resp["h1"].success /\ resp["h1"] = CreateUserFailed
    /\ \E i \in invitations :
            i.token = req["h1"].token /\ Cardinality(IdentitiesOf(i)) = 1

\* the patient rows holding this phone
PatientsWithPhone(phone) == {i \in 1..Len(patients) : patients[i].phone = phone}

\* C26: under any interleaving of create calls given the same phone at most
\* one patient row with that phone exists afterwards and at most one of the
\* calls returns success.
C26_OnePatientPerPhone ==
    /\ \A i \in 1..Len(patients) : Cardinality(PatientsWithPhone(patients[i].phone)) <= 1
    /\ \A p, q \in Handlers :
            (/\ p # q
             /\ Returned(p, "create") /\ Returned(q, "create")
             /\ req[p].phone = req[q].phone) =>
                ~(resp[p].success /\ resp[q].success)

---------------------------------------------------------------------------
(* Claims about the notification scan *)

\* C3, as stated: for any number of staff recipients, a scan that runs right
\* after a successful scan, with no event written and no staff added in
\* between or meanwhile, creates zero notifications.
C3_SecondScanCreatesNothing ==
    \A s \in Scanners :
        (spc[s] = "done" /\ sresp[s].success /\ sloc[s].second /\ sloc[s].quiet)
            => sresp[s].notificationsCreated = 0

\* C4, as stated: after any sequence of non-overlapping scans, with events
\* written and staff added in between, the notifications table holds at most
\* one row for each (related id, type, recipient).
C4_AtMostOneRowPerTriple ==
    \A n \in DOMAIN notifications : notifications[n] <= 1

---------------------------------------------------------------------------
(* Claims about the invitation handler, store operations failing *)

\* the activate call on p found its invitation and then failed to create the
\* identity
IdentityCreationFailed(p) ==
    Returned(p, "activate") /\ loc[p].patient # NoId /\ loc[p].user = NoId

\* C11: if identity creation fails in activate, the call returns status 500
\* and has written nothing: no role row, no link from the patient row to an
\* identity, and the invitation's used_at still null, so that the token still
\* passes the validity lookup.
C11_FailedIdentityCreationWritesNothing ==
    \A p \in Handlers :
        IdentityCreationFailed(p) =>
            /\ resp[p].status = 500
            /\ ~resp[p].success
            /\ written[p] = {}
            /\ patients[loc[p].patient].user_id = NULL
                    \/ patients[loc[p].patient].user_id \in 1..Len(authUsers)
            /\ \A r \in userRoles : r.user_id \in 1..Len(authUsers)
            /\ \A i \in invitations : i.token = req[p].token => i.used_at = NULL
            /\ HasSingle(InvitationQuery(req[p].token, loc[p].t))

\* the identity provider failed in an activate of a live token
C11_Witness ==
    /\ IdentityCreationFailed("h1")
    /\ "a_create_user" \in failed["h1"]
    /\ LiveBefore("h1")

\* the activate call on p has created its identity
IdentityCreated(p) == req[p].op = "activate" /\ loc[p].user # NoId

\* C12: once identity creation has succeeded in activate, the call returns
\* success with status 200 whether the role insert and the patient link
\* succeed or fail, and used_at is set by the last step of the call, not
\* before (the update of used_at itself not failing).
C12_SuccessOnceIdentityCreated ==
    \A p \in Handlers :
        IdentityCreated(p) =>
            LET rows == {i \in invitations : i.token = req[p].token}
            IN  IF pc[p] = "done"
                THEN /\ resp[p].status = 200
                     /\ resp[p].success
                     /\ "a_mark_used" \notin failed[p] =>
                            /\ rows # {}
                            /\ \A i \in rows : i.used_at # NULL /\ i.used_at = loc[p].usedAt
                ELSE /\ pc[p] \in {"a_insert_role", "a_link_patient", "a_mark_used"}
                     /\ \A i \in rows : i.used_at = NULL

\* the patient link failed, the only role row is the trigger's, and the call
\* still marked the invitation used and returned 200
C12_Witness ==
    /\ Returned("h1", "activate")
    /\ IdentityCreated("h1")
    /\ "a_link_patient" \in failed["h1"]
    /\ "patients" \notin written["h1"]
    /\ patients[loc["h1"].patient].user_id = NULL
    /\ resp["h1"].status = 200
    /\ \E i \in invitations : i.token = req["h1"].token /\ i.used_at # NULL

\* the create call on p found exactly one patient row holding its phone
PhoneRegistered(p) ==
    /\ "c_precheck" \notin failed[p]
    /\ Cardinality(pre[p].patients) = 1

FailingCreate(p) == Returned(p, "create") /\ ~resp[p].success

C19_ValidateAlways200 ==
    \A p \in Handlers :
        Returned(p, "validate") =>
            /\ req[p].token # NoToken => resp[p].status = 200
            /\ resp[p].status = 400 => req[p].token = NoToken
            /\ resp[p].status \in {200, 400}

\* validate was given a token and its lookup failed
C19_Witness ==
    /\ Returned("h1", "validate")
    /\ req["h1"].token # NoToken
    /\ "v_lookup" \in failed["h1"]
    /\ resp["h1"].status = 200
    /\ resp["h1"].valid = "false"

\* the create call on p inserted its patient row and its invitation row
BothRowsInserted(p) ==
    /\ req[p].op = "create"
    /\ loc[p].patient \in 1..Len(patients)
    /\ \E i \in invitations : i.token = loc[p].token /\ i.patient_id = loc[p].patient

\* C21: the SMS webhook is posted only for a token whose invitation row and
\* patient row are in the store, and a create that has inserted both rows
\* returns the success response with status 200 whether the webhook URL is set
\* or not and whether the post worked or failed.
C21_WebhookNeverChangesResponse ==
    /\ \A k \in webhooks :
            \E i \in invitations : i.token = k /\ i.patient_id \in 1..Len(patients)
    /\ \A p \in Handlers :
            (pc[p] = "done" /\ BothRowsInserted(p)) =>
                /\ resp[p].status = 200
                /\ resp[p].success
                /\ resp[p].token = loc[p].token
                /\ resp[p].patient = loc[p].patient

\* the webhook post of a create failed and the create returned 200
C21_Witness ==
    /\ Returned("h1", "create")
    /\ webhookUrl
    /\ "c_webhook" \in failed["h1"]
    /\ BothRowsInserted("h1")
    /\ resp["h1"].status = 200
    /\ resp["h1"].token \notin webhooks

\* the messages the handler writes itself into its status-500 responses
FixedMessages ==
    {"Failed to create patient", "Failed to create invitation",
     "Failed to create account. Phone may already be in use."}

\* C22: every status-500 response of the invitation handler carries one of
\* the fixed messages, whatever the message of the failure underneath.
C22_Fixed500Message ==
    \A p \in Handlers :
        (pc[p] = "done" /\ resp[p].status = 500) => resp[p].error \in FixedMessages

\* the steps of a call at which it reads or writes the store
StoreSteps ==
    {"c_precheck", "c_insert_patient", "c_insert_invitation", "v_lookup", "a_lookup",
     "a_create_user", "a_insert_role", "a_link_patient", "a_mark_used"}

\* C29: a create request without an Authorization header is answered 401
\* whether or not its body can be read and whatever it holds, and the call
\* never comes to a store operation, changes no table and posts no webhook.
C29_NoAuthorizationIs401 ==
    \A p \in Handlers :
        (req[p].op = "create" /\ ~req[p].auth) =>
            /\ pc[p] = "done"
            /\ pc[p] \notin StoreSteps
            /\ resp[p].status = 401
            /\ resp[p].error = "Unauthorized"
            /\ written[p] = {}
            /\ failed[p] = {}

\* a create without Authorization whose body cannot be read was answered 401
C29_Witness ==
    /\ Returned("h1", "create")
    /\ ~req["h1"].auth
    /\ req["h1"].thrown # ""
    /\ resp["h1"].status = 401

---------------------------------------------------------------------------
(* More claims about the notification scan *)

\* the scan invocation s has returned, having found no staff user
FoundNoStaff(s) == spc[s] = "done" /\ sloc[s].staffUsers = {}

\* C14, as stated: when no identity holds the staff role, a scan returns a
\* success response whose notificationsCreated is 0, and inserts no
\* notification row, whatever events exist.
C14_NoStaffReturnsZero ==
    \A s \in Scanners :
        FoundNoStaff(s) =>
            /\ sresp[s].status = 200
            /\ sresp[s].notificationsCreated = 0
            /\ sloc[s].notifications = EmptyBag

Detectors == {"s_tasks", "s_appointments", "s_messages"}

DetectorType(step) ==
    CASE step = "s_tasks" -> "urgent_task"
      [] step = "s_appointments" -> "missed_appointment"
      [] step = "s_messages" -> "patient_message"

\* the ids of the events the detector of this step selects now
SelectedNow(step) ==
    CASE step = "s_tasks" ->
            {t.id : t \in {t \in InnerPatients(tasks) :
                                t.priority = "HIGH" /\ t.status = "OPEN"
                                /\ t.created_at >= now - LAST_HOUR_MS}}
      [] step = "s_appointments" ->
            {a.id : a \in {a \in InnerPatients(appointments) :
                                a.status = "MISSED" /\ a.updated_at >= now - LAST_HOUR_MS}}
      [] step = "s_messages" ->
            {m.id : m \in {m \in InnerPatients(messages) :
                                m.direction = "INBOUND"
                                /\ m.created_at >= now - LAST_10_MINUTES_MS}}

\* C15: in a scan, a detector whose query fails contributes no notification
\* and does not stop the scan: the other detectors run (every event they
\* select has a notification once the scan has returned), what they
\* contributed is inserted, and the scan returns success with its count (the
\* insert itself not failing).
C15_DetectorFailureIsIsolated ==
    \A s \in Scanners :
        LET broken == sloc[s].failed \cap Detectors
            array == sloc[s].notifications
        IN  /\ \A n \in DOMAIN array : \A step \in broken : n.type # DetectorType(step)
            /\ (spc[s] = "done" /\ broken # {} /\ "s_insert" \notin sloc[s].failed) =>
                    /\ sresp[s].status = 200
                    /\ sresp[s].success
                    /\ sresp[s].notificationsCreated = BagCardinality(array)
                    /\ \A n \in DOMAIN array : n \in DOMAIN notifications
                    /\ sloc[s].quiet =>
                            \A step \in Detectors \ broken : \A id \in SelectedNow(step) :
                                Matching(id, DetectorType(step)) >= 1

\* the task query failed while a task was there to select; the scan went on
\* to notify about a message and returned success
C15_Witness ==
    /\ spc["s1"] = "done"
    /\ sloc["s1"].failed = {"s_tasks"}
    /\ sloc["s1"].quiet
    /\ SelectedNow("s_tasks") # {}
    /\ \A id \in SelectedNow("s_tasks") : Matching(id, "urgent_task") = 0
    /\ \E n \in DOMAIN sloc["s1"].notifications :
            n.type = "patient_message" /\ n \in DOMAIN notifications
    /\ sresp["s1"].success
    /\ sresp["s1"].notificationsCreated > 0

\* a step inserts no notification about an event that already has
\* notifications for a recipient who has none about it
C17_NoRowForLaterStaff ==
    \A n \in DOMAIN notifications' :
        (n \notin DOMAIN notifications) => Matching(n.related_id, n.type) = 0

\* C17, as stated: if a staff member is added after the notifications for an
\* event were created for the earlier staff set, of any size, no later scan
\* ever creates a notification about that event for the new staff member.
C17_NewStaffNeverNotified == [][C17_NoRowForLaterStaff]_vars

\* the candidate events of the invocation s that had no notification row
Unnotified(s) == {c \in sloc[s].candidates : c.existing = 0}

\* one row per pair of such an event and a staff user of the invocation
OnePerPair(s) ==
    SetToBag({[user_id |-> u, type |-> c.type, related_id |-> c.event.id] :
                <<c, u>> \in Unnotified(s) \X sloc[s].staffUsers})

\* C23: a scan that finds k candidate events without a notification and n
\* staff users inserts k * n rows, one per pair of event and staff user with
\* the detector's type and the event's id, and returns notificationsCreated =
\* k * n; with k * n = 0 it inserts nothing.
C23_InsertsOnePerPair ==
    \A s \in Scanners :
        (spc[s] = "done" /\ sresp[s].success) =>
            /\ sloc[s].notifications = OnePerPair(s)
            /\ sresp[s].notificationsCreated =
                    Cardinality(Unnotified(s)) * Cardinality(sloc[s].staffUsers)

\* the event of candidate c satisfied the predicate of the detector of its type
\* at the time of the query that returned it
SatisfiedDetector(c) ==
    \/ /\ c.type = "urgent_task"
       /\ c.event \in tasks
       /\ c.event.priority = "HIGH" /\ c.event.status = "OPEN"
       /\ c.at - c.event.created_at <= LAST_HOUR_MS
    \/ /\ c.type = "missed_appointment"
       /\ c.event \in appointments
       /\ c.event.status = "MISSED"
       /\ c.at - c.event.updated_at <= LAST_HOUR_MS
    \/ /\ c.type = "patient_message"
       /\ c.event \in messages
       /\ c.event.direction = "INBOUND"
       /\ c.at - c.event.created_at <= LAST_10_MINUTES_MS

\* C24: every notification a scan puts in its array and inserts refers to an
\* event that its detector's query returned and that satisfied the detector's
\* predicate at the time of that query: a HIGH, OPEN task created within the
\* last hour, a MISSED appointment updated within the last hour, or an INBOUND
\* message created within the last 10 minutes.
C24_NotifiedEventsSatisfyDetector ==
    \A s \in Scanners :
        \A n \in DOMAIN sloc[s].notifications :
            \E c \in sloc[s].candidates :
                /\ c.event.id = n.related_id
                /\ c.type = n.type
                /\ SatisfiedDetector(c)

\* a scan inserted notifications while an INBOUND message older than 10
\* minutes, never notified, stayed without one
C24_Witness ==
    /\ spc["s1"] = "done"
    /\ sresp["s1"].success
    /\ sresp["s1"].notificationsCreated > 0
    /\ \E m \in messages :
            /\ m.direction = "INBOUND"
            /\ m.patient_id # NULL
            /\ now - m.created_at > LAST_10_MINUTES_MS
            /\ Matching(m.id, "patient_message") = 0

\* the message query of some scan returned message m
QueriedByAScan(m) ==
    \/ Matching(m.id, "patient_message") > 0
    \/ \E s \in Scanners : \E c \in sloc[s].candidates : c.event = m

\* C28: with staff, scans every 10 minutes one after the other and no failure,
\* every INBOUND message falls inside the 10-minute window of the message
\* query of some scan: none grows older than 10 minutes without a scan's query
\* having returned it.
C28_EveryInboundMessageQueried ==
    Staff # {} =>
        \A m \in messages :
            (m.direction = "INBOUND" /\ now - m.created_at > LAST_10_MINUTES_MS) =>
                QueriedByAScan(m)

---------------------------------------------------------------------------
(* Claims about overlapping scans *)

\* a step in which the invocation s returns from its insert adds every row of
\* its array to the table, whatever rows the table holds
C16_InsertAddsWholeArray ==
    \A s \in Scanners :
        (spc[s] = "s_insert" /\ spc'[s] = "done") =>
            /\ sresp'[s].success
            /\ \A n \in DOMAIN sloc[s].notifications :
                    CopiesIn(n, notifications') =
                        CopiesIn(n, notifications) + CopiesIn(n, sloc[s].notifications)

\* C16: nothing in the scan or in the table stops two overlapping invocations
\* that both passed the existence check for one event from both inserting:
\* the insert of each adds all its rows to whatever the table holds, so the
\* table ends with more than one row for one (event id, type, recipient).
C16_OverlappingScansDuplicate == [][C16_InsertAddsWholeArray]_vars

\* with one staff user, both invocations pushed the same row and returned, and
\* the table holds it twice
C16_Witness ==
    /\ Cardinality(Staff) = 1
    /\ spc["s1"] = "done" /\ spc["s2"] = "done"
    /\ sresp["s1"].success /\ sresp["s2"].success
    /\ \E n \in DOMAIN notifications :
            /\ n \in DOMAIN sloc["s1"].notifications
            /\ n \in DOMAIN sloc["s2"].notifications
            /\ notifications[n] = 2

---------------------------------------------------------------------------
(* Claims about the AuthProvider *)

\* nothing is awaited any more
AuthSettled ==
    /\ provider.getSession = "settled"
    /\ provider.fetches = {}
    /\ provider.signOut = "idle"

\* C30: once every pending callback and role fetch has finished, the role is
\* null whenever the user is null, and otherwise it is the role fetched for
\* the current user.
C30_RoleIsOfCurrentUser ==
    (AuthSettled /\ provider.mounted) =>
        IF provider.user = NoId
        THEN provider.role = NoRole
        ELSE provider.role = FetchedRole(provider.user)

====
